---- MODULE Spec2Model ----
(***************************************************************************)
(* Model of app.py: the mark splitter (process_marks), the table enricher  *)
(* (process_excel_file) and the department partitioner                     *)
(* (create_department_batches), with the files they leave on disk.         *)
(*                                                                         *)
(* Python strings are sequences of one-character strings.  A cell value is *)
(* a record [t, v, s]: t is the Python type, v the number, s the text.     *)
(***************************************************************************)
EXTENDS Integers, Sequences, FiniteSets, TLC

VARIABLES marks, result, m_pc,
          pc, df, headers, workbook, batch_workbooks, todo, zip_buffer, err,
          disk

vars == <<marks, result, m_pc,
          pc, df, headers, workbook, batch_workbooks, todo, zip_buffer, err,
          disk>>

(* ---------------------------- bounds ----------------------------------- *)
MaxLen == 4
MaxRows == 2
MaxCols == 12
NumRuns == 2

(* ---------------------------- values ----------------------------------- *)
None == [t |-> "none", v |-> 0, s |-> <<>>]
NaN == [t |-> "nan", v |-> 0, s |-> <<>>]
IntV(n) == [t |-> "int", v |-> n, s |-> <<>>]
FloatV(tenths) == [t |-> "float", v |-> tenths, s |-> <<>>]
StrV(chars) == [t |-> "str", v |-> 0, s |-> chars]

Digits == <<"0", "1", "2", "3", "4", "5", "6", "7", "8", "9">>
IsDigit(c) == \E d \in 1..10 : Digits[d] = c
DigitVal(c) == (CHOOSE d \in 1..10 : Digits[d] = c) - 1
IsSpace(c) == c = " "

(* ------------------------ Python string methods ------------------------ *)
RECURSIVE lstrip(_, _)
lstrip(chars, c) ==
    IF chars # <<>> /\ Head(chars) = c THEN lstrip(Tail(chars), c) ELSE chars

RECURSIVE rstrip(_, _)
rstrip(chars, c) ==
    IF chars # <<>> /\ chars[Len(chars)] = c
    THEN rstrip(SubSeq(chars, 1, Len(chars) - 1), c)
    ELSE chars

strip(chars) == rstrip(lstrip(chars, " "), " ")

Contains(chars, c) == \E i \in 1..Len(chars) : chars[i] = c

\* str.split(sep) for a one-character sep: every occurrence separates
RECURSIVE split(_, _)
split(chars, sep) ==
    IF ~Contains(chars, sep) THEN <<chars>>
    ELSE LET i == CHOOSE k \in 1..Len(chars) :
                     chars[k] = sep /\ \A j \in 1..(k - 1) : chars[j] # sep
         IN <<SubSeq(chars, 1, i - 1)>> \o split(SubSeq(chars, i + 1, Len(chars)), sep)

\* str.replace(old, new) for one-character old and new
replace(chars, old, new) ==
    [i \in 1..Len(chars) |-> IF chars[i] = old THEN new ELSE chars[i]]

\* chars[a:b] for 0 <= a <= b: clipped to the string, never an error
PySlice(chars, a, b) ==
    SubSeq(chars, a + 1, IF b < Len(chars) THEN b ELSE Len(chars))

\* str(n) for n >= 0
RECURSIVE str(_)
str(n) == IF n < 10 THEN <<Digits[n + 1]>> ELSE str(n \div 10) \o <<Digits[(n % 10) + 1]>>

(* ------------------------------ int(text) ------------------------------ *)
\* digits, with single underscores allowed between two digits
IntBodyOk(b) ==
    /\ b # <<>>
    /\ \A i \in 1..Len(b) : IsDigit(b[i]) \/ b[i] = "_"
    /\ IsDigit(b[1]) /\ IsDigit(b[Len(b)])
    /\ \A i \in 1..(Len(b) - 1) : ~(b[i] = "_" /\ b[i + 1] = "_")

RECURSIVE IntBodyVal(_)
IntBodyVal(b) ==
    IF b = <<>> THEN 0
    ELSE LET front == SubSeq(b, 1, Len(b) - 1)
             last == b[Len(b)]
         IN IF last = "_" THEN IntBodyVal(front)
            ELSE 10 * IntBodyVal(front) + DigitVal(last)

\* int(text): surrounding whitespace and one sign are accepted;
\* ok = FALSE stands for ValueError
PyInt(chars) ==
    LET t == strip(chars)
        signed == t # <<>> /\ t[1] \in {"+", "-"}
        body == IF signed THEN Tail(t) ELSE t
    IN IF IntBodyOk(body)
       THEN [ok |-> TRUE,
             v |-> IF signed /\ t[1] = "-" THEN 0 - IntBodyVal(body) ELSE IntBodyVal(body)]
       ELSE [ok |-> FALSE, v |-> 0]

\* int(number): truncation toward zero; a float is held in tenths
Truncate(x) ==
    IF x.t = "int" THEN x.v
    ELSE IF x.v >= 0 THEN x.v \div 10 ELSE 0 - ((0 - x.v) \div 10)

(* ---------------------------- process_marks ---------------------------- *)
Sentinel == <<None, None, None>>

\* `not marks`
Falsy(x) ==
    \/ x.t = "none"
    \/ x.t \in {"int", "float"} /\ x.v = 0
    \/ x.t = "str" /\ x.s = <<>>

\* int(part.lstrip('0') or '0')
ParsePart(part) ==
    LET stripped == lstrip(part, "0")
    IN PyInt(IF stripped = <<>> THEN <<"0">> ELSE stripped)

\* as SplitMarks, with the external part parsed from the internal text
SplitMarks_copied(marks_str) ==
    LET parts == split(marks_str, "+")
    IN IF Len(parts) # 2 THEN Sentinel
       ELSE LET internal_val == ParsePart(parts[1])
                external_val == ParsePart(parts[1])
            IN IF internal_val.ok /\ external_val.ok
               THEN <<IntV(internal_val.v), IntV(external_val.v),
                      IntV(internal_val.v + external_val.v)>>
               ELSE Sentinel

\* the `+` branch: internal, external = marks_str.split('+')
SplitMarks(marks_str) ==
    LET parts == split(marks_str, "+")
    IN IF Len(parts) # 2 THEN Sentinel
       ELSE LET internal_val == ParsePart(parts[1])
                external_val == ParsePart(parts[2])
            IN IF internal_val.ok /\ external_val.ok
               THEN <<IntV(internal_val.v), IntV(external_val.v),
                      IntV(internal_val.v + external_val.v)>>
               ELSE Sentinel

process_marks(x) ==
    IF Falsy(x) THEN Sentinel
    ELSE IF x.t \in {"int", "float"} THEN <<None, None, IntV(Truncate(x))>>
    ELSE LET marks_str == strip(x.s)
         IN IF Contains(marks_str, "+") THEN SplitMarks(marks_str)
            ELSE LET total == ParsePart(marks_str)
                 IN IF total.ok THEN <<None, None, IntV(total.v)>> ELSE Sentinel

(* ------------------------- string literals ---------------------------- *)
temp_path == <<"t", "e", "m", "p", "_", "w", "o", "r", "k", "b", "o", "o", "k", ".", "x", "l", "s", "x">>
RegisterNoLabel == <<"R", "e", "g", "i", "s", "t", "e", "r", " ", "N", "o">>
NameLabel == <<"N", "a", "m", "e">>
CollegeIDLabel == <<"C", "o", "l", "l", "e", "g", "e", " ", "I", "D">>
SubjectCodeLabel == <<"S", "u", "b", "j", "e", "c", "t", " ", "C", "o", "d", "e", " ">>
SubjectNameLabel == <<"S", "u", "b", "j", "e", "c", "t", " ", "N", "a", "m", "e", " ">>
MarksLabel == <<"M", "a", "r", "k", "s", " ">>
ResultLabel == <<"R", "e", "s", "u", "l", "t", " ">>
UnnamedLabel == <<"U", "n", "n", "a", "m", "e", "d", ":", " ">>
InternalLabel == <<"I", "n", "t", "e", "r", "n", "a", "l">>
ExternalLabel == <<"E", "x", "t", "e", "r", "n", "a", "l">>
TotalLabel == <<"T", "o", "t", "a", "l">>
BatchInfix == <<"_", "B", "a", "t", "c", "h", "_">>
XlsxSuffix == <<".", "x", "l", "s", "x">>

\* dict literal: <<code, name>> pairs
department_codes ==
    {<<<<"2", "8", "M">>, <<"D", "a", "t", "a", " ", "S", "c", "i", "e", "n", "c", "e">>>>,
     <<<<"2", "5", "F">>, <<"B", "B", "A">>>>,
     <<<<"2", "5", "N">>, <<"B", "B", "A", "I", "B">>>>,
     <<<<"2", "A", "A">>, <<"B", "C", "o", "m">>>>,
     <<<<"2", "A", "K">>, <<"B", "C", "o", "m", "P", "A">>>>,
     <<<<"2", "6", "U">>, <<"P", "s", "y", "c", "h", "o", "l", "o", "g", "y">>>>,
     <<<<"2", "2", "S">>, <<"V", "i", "s", "c", "o", "m">>>>,
     <<<<"2", "1", "C">>, <<"E", "c", "o", "n", "o", "m", "i", "c", "s">>>>,
     <<<<"2", "1", "G">>, <<"T", "a", "m", "i", "l">>>>,
     <<<<"3", "1", "B">>, <<"M", "S", "W">>>>,
     <<<<"2", "1", "B">>, <<"P", "o", "l", "i", "t", "i", "c", "a", "l", " ", "S", "c", "i", "e", "n", "c", "e">>>>,
     <<<<"3", "1", "M">>, <<"M", ".", " ", "P", "o", "l", "i", "t", "i", "c", "a", "l", " ", "S", "c", "i", "e", "n", "c", "e">>>>}

start_col == 4
Runs == 1..NumRuns

(* ------------------------- process_excel_file -------------------------- *)
\* (total_columns - 3) // 4 : floor division, also below zero
num_subjects(total_columns) == (total_columns - 3) \div 4

RECURSIVE SubjectHeaders(_)
SubjectHeaders(k) ==
    IF k <= 0 THEN <<>>
    ELSE SubjectHeaders(k - 1) \o
         <<SubjectCodeLabel \o str(k), SubjectNameLabel \o str(k),
           MarksLabel \o str(k), ResultLabel \o str(k)>>

\* as make_headers, with the labels cut to the number of columns
make_headers_cut(total_columns) ==
    LET named == <<RegisterNoLabel, NameLabel, CollegeIDLabel>> \o
                 SubjectHeaders(num_subjects(total_columns))
        extra_cols == total_columns - Len(named)
    IN IF extra_cols > 0
       THEN named \o [i \in 1..extra_cols |-> UnnamedLabel \o str(i - 1)]
       ELSE SubSeq(named, 1, total_columns)

make_headers(total_columns) ==
    LET named == <<RegisterNoLabel, NameLabel, CollegeIDLabel>> \o
                 SubjectHeaders(num_subjects(total_columns))
        extra_cols == total_columns - Len(named)
    IN IF extra_cols > 0
       THEN named \o [i \in 1..extra_cols |-> UnnamedLabel \o str(i - 1)]
       ELSE named

\* df.columns = headers raises ValueError unless there is one label per column
ColumnsFit(hdrs, total_columns) == Len(hdrs) = total_columns

\* df.to_excel(temp_path, index=False): the header row, then the data rows;
\* a missing value (NaN) is written as the empty string, and the file keeps
\* no value for a cell that is empty or None
ExcelCell(x) == IF x.t = "nan" THEN StrV(<<>>) ELSE x
FileCell(x) == IF x = StrV(<<>>) THEN None ELSE x
FileRows(rows) == [j \in 1..Len(rows) |-> [c \in 1..Len(rows[j]) |-> FileCell(rows[j][c])]]
to_excel(hdrs, rows) ==
    FileRows(<<[c \in 1..Len(hdrs) |-> StrV(hdrs[c])]>> \o
             [j \in 1..Len(rows) |-> [c \in 1..Len(rows[j]) |-> ExcelCell(rows[j][c])]])

\* sheet.cell(row, column).value : a cell never written holds None
GetCell(sheet, row, col) ==
    IF col <= Len(sheet[row]) THEN sheet[row][col] ELSE None

\* write value into one row at column col
SetInRow(cells, col, value) ==
    [c \in 1..(IF col > Len(cells) THEN col ELSE Len(cells)) |->
        IF c = col THEN value ELSE IF c <= Len(cells) THEN cells[c] ELSE None]

\* sheet.insert_cols(idx, amount): cells at idx and to its right move right
insert_cols(sheet, idx, amount) ==
    [row \in 1..Len(sheet) |->
        IF idx > Len(sheet[row]) THEN sheet[row]
        ELSE SubSeq(sheet[row], 1, idx - 1) \o [c \in 1..amount |-> None] \o
             SubSeq(sheet[row], idx, Len(sheet[row]))]

\* as marks_col, with the width of an input block for the stride
marks_col_stride4(subject_num) == start_col + (subject_num * 4) + 2
marks_col(subject_num) == start_col + (subject_num * 7) + 2
\* as insert_col, with the insertion after the Result column
insert_col_after_result(mc) == mc + 2
insert_col(mc) == mc + 1

DerivedLabels == <<InternalLabel, ExternalLabel, TotalLabel>>

\* internal if internal is not None else ''
Render(x) == IF x = None THEN StrV(<<>>) ELSE x

\* one pass of the loop over the subjects
EnrichSubject(sheet, subject_num) ==
    LET mc == marks_col(subject_num)
        ic == insert_col(mc)
        shifted == insert_cols(sheet, ic, 3)
        Put3(cells, values) ==
            SetInRow(SetInRow(SetInRow(cells, ic, values[1]), ic + 1, values[2]),
                     ic + 2, values[3])
    IN [row \in 1..Len(shifted) |->
          IF row = 1
          THEN Put3(shifted[row],
                    [idx \in 1..3 |-> StrV(DerivedLabels[idx] \o <<" ">> \o str(subject_num + 1))])
          ELSE LET triple == process_marks(GetCell(shifted, row, mc))
               IN Put3(shifted[row], [idx \in 1..3 |-> Render(triple[idx])])]

RECURSIVE EnrichFrom(_, _, _)
EnrichFrom(sheet, subject_num, n) ==
    IF subject_num >= n THEN sheet
    ELSE EnrichFrom(EnrichSubject(sheet, subject_num), subject_num + 1, n)

\* from load_workbook to the returned workbook (its active sheet)
enrich(loaded, n) == EnrichFrom(loaded, 0, n)

(* ---------------------- create_department_batches ---------------------- *)
\* as isinstance_str, with the type check left out
isinstance_str_any(register_no) == TRUE
isinstance_str(register_no) == register_no.t = "str"
\* as dept_code_of, with the code read from the start of the number
dept_code_of_first3(register_no) == PySlice(register_no, 0, 3)
dept_code_of(register_no) == PySlice(register_no, 2, 5)
batch_year_of(register_no) == PySlice(register_no, 0, 2)

InDepartmentCodes(code) == \E p \in department_codes : p[1] = code
DeptName(code) == (CHOOSE p \in department_codes : p[1] = code)[2]

\* batch_workbooks: the departments in insertion order, each with its batch
\* years in insertion order; a workbook is the rows of its active sheet
HasDept(bw, dept) == \E i \in 1..Len(bw) : bw[i].dept = dept
DeptIndex(bw, dept) == CHOOSE i \in 1..Len(bw) : bw[i].dept = dept
HasYear(batches, year) == \E i \in 1..Len(batches) : batches[i].batch_year = year
YearIndex(batches, year) == CHOOSE i \in 1..Len(batches) : batches[i].batch_year = year

\* as append_row, with the row put right below the header
append_row_on_top(wb, row_values) == <<Head(wb), row_values>> \o Tail(wb)
append_row(wb, row_values) == Append(wb, row_values)

AddRow(bw, dept, year, hdr, row_values) ==
    LET bw1 == IF HasDept(bw, dept) THEN bw
               ELSE Append(bw, [dept |-> dept, batches |-> <<>>])
        d == DeptIndex(bw1, dept)
        b1 == IF HasYear(bw1[d].batches, year) THEN bw1[d].batches
              ELSE Append(bw1[d].batches, [batch_year |-> year, wb |-> <<hdr>>])
        y == YearIndex(b1, year)
    IN [bw1 EXCEPT ![d].batches =
            [b1 EXCEPT ![y].wb = append_row(b1[y].wb, row_values)]]

\* one pass of the loop over the rows; slicing a value that is no string
\* raises TypeError
CategorizeRow(acc, sheet, row) ==
    LET register_no == GetCell(sheet, row, 1)
    IN IF acc.err # "" THEN acc
       ELSE IF ~isinstance_str(register_no) THEN acc
       ELSE IF register_no.t # "str" THEN [acc EXCEPT !.err = "TypeError"]
       ELSE LET dept_code == dept_code_of(register_no.s)
                batch_year == batch_year_of(register_no.s)
            IN IF InDepartmentCodes(dept_code)
               THEN [acc EXCEPT !.bw = AddRow(acc.bw, DeptName(dept_code), batch_year,
                                              sheet[1], sheet[row])]
               ELSE acc

RECURSIVE CategorizeFrom(_, _, _)
CategorizeFrom(acc, sheet, row) ==
    IF row > Len(sheet) THEN acc
    ELSE CategorizeFrom(CategorizeRow(acc, sheet, row), sheet, row + 1)

categorize(sheet) == CategorizeFrom([bw |-> <<>>, err |-> ""], sheet, 2)

\* the order in which the two nested loops over batch_workbooks visit the workbooks
RECURSIVE Flatten(_)
Flatten(bw) ==
    IF bw = <<>> THEN <<>>
    ELSE [i \in 1..Len(bw[1].batches) |->
             [dept |-> bw[1].dept, batch_year |-> bw[1].batches[i].batch_year,
              wb |-> bw[1].batches[i].wb]] \o Flatten(Tail(bw))

batch_file(dept, batch_year) ==
    replace(dept, " ", "_") \o BatchInfix \o batch_year \o XlsxSuffix

(* ------------------------------ inputs -------------------------------- *)
R28M231001 == <<"2", "8", "M", "2", "3", "1", "0", "0", "1">>
R25F231002 == <<"2", "5", "F", "2", "3", "1", "0", "0", "2">>
R2828M1001 == <<"2", "8", "2", "8", "M", "1", "0", "0", "1">>
R2828M1002 == <<"2", "8", "2", "8", "M", "1", "0", "0", "2">>
R2525F1002 == <<"2", "5", "2", "5", "F", "1", "0", "0", "2">>
RXX == <<"X", "X">>

RegSet == {StrV(R28M231001), StrV(R25F231002), StrV(R2828M1001), StrV(R2828M1002),
           StrV(R2525F1002), StrV(RXX), IntV(2828)}

MarkCells == <<StrV(<<"0", "4", "0", "+", "0", "4", "3">>), IntV(75), NaN,
               StrV(<<"a", "b">>), StrV(<<"0", "7", "0">>)>>
MarkCell(j, i, seed) == MarkCells[((j + i + seed) % Len(MarkCells)) + 1]
Filler(j, c) == StrV(<<"r">> \o str(j) \o <<"c">> \o str(c))

IsMarksColumn(c, n) == c > 3 /\ c <= 3 + 4 * num_subjects(n) /\ (c - 4) % 4 = 2

\* a rectangular table of n columns: column 1 holds regs, every Marks column a
\* mark cell, every other cell a text of its own
Table(n, regs, seed) ==
    [ncols |-> n,
     rows |-> [j \in 1..Len(regs) |->
                 [c \in 1..n |->
                    IF c = 1 THEN regs[j]
                    ELSE IF IsMarksColumn(c, n) THEN MarkCell(j, ((c - 4) \div 4) + 1, seed)
                    ELSE Filler(j, c)]]]

RegSeqs == UNION {[1..m -> RegSet] : m \in 0..MaxRows}
Tables == {Table(n, regs, seed) : n \in 0..MaxCols, regs \in RegSeqs,
                                  seed \in 0..(Len(MarkCells) - 1)}
NoTable == [ncols |-> 0, rows |-> <<>>]
ConcTables == {Table(7, <<StrV(reg)>>, 0) : reg \in {R2828M1001, R2828M1002, R2525F1002}}

Alphabet == {"0", "1", "+", " ", "a", "-", "_"}
Examples == {<<"0", "4", "0", "+", "0", "4", "3">>, <<"0", "0", "0", "+", "0", "0", "0">>,
             <<"1", "+", "2", "+", "3">>, <<"1", "2", "+">>, <<"+", "3", "4">>,
             <<"a", "b", "c">>, <<"0", "7", "5">>}
MarkStrings == UNION {[1..n -> Alphabet] : n \in 0..MaxLen} \cup Examples
MarkInputs == {StrV(chars) : chars \in MarkStrings} \cup
              {None, IntV(0), IntV(75), FloatV(405), FloatV(0)}

(* ------------------------------ state --------------------------------- *)
PipelineIdle ==
    /\ pc = [r \in Runs |-> "idle"]
    /\ df = [r \in Runs |-> NoTable]
    /\ headers = [r \in Runs |-> <<>>]
    /\ workbook = [r \in Runs |-> <<>>]
    /\ batch_workbooks = [r \in Runs |-> <<>>]
    /\ todo = [r \in Runs |-> <<>>]
    /\ zip_buffer = [r \in Runs |-> <<>>]
    /\ err = [r \in Runs |-> ""]
    /\ disk = <<>>

\* one upload, one run
Init ==
    /\ marks = None /\ result = Sentinel /\ m_pc = "off"
    /\ pc = [r \in Runs |-> IF r = 1 THEN "start" ELSE "idle"]
    /\ \E t \in Tables : df = [r \in Runs |-> IF r = 1 THEN t ELSE NoTable]
    /\ headers = [r \in Runs |-> <<>>]
    /\ workbook = [r \in Runs |-> <<>>]
    /\ batch_workbooks = [r \in Runs |-> <<>>]
    /\ todo = [r \in Runs |-> <<>>]
    /\ zip_buffer = [r \in Runs |-> <<>>]
    /\ err = [r \in Runs |-> ""]
    /\ disk = <<>>

\* every session of the hosting server runs the script in the same working
\* directory: one run per session, on different uploads
InitConc ==
    /\ marks = None /\ result = Sentinel /\ m_pc = "off"
    /\ pc = [r \in Runs |-> "start"]
    /\ df \in [Runs -> ConcTables]
    /\ \A r1, r2 \in Runs : r1 # r2 => df[r1] # df[r2]
    /\ headers = [r \in Runs |-> <<>>]
    /\ workbook = [r \in Runs |-> <<>>]
    /\ batch_workbooks = [r \in Runs |-> <<>>]
    /\ todo = [r \in Runs |-> <<>>]
    /\ zip_buffer = [r \in Runs |-> <<>>]
    /\ err = [r \in Runs |-> ""]
    /\ disk = <<>>

InitMarks ==
    /\ marks \in MarkInputs /\ result = Sentinel /\ m_pc = "call"
    /\ PipelineIdle

\* the disk: a sequence of [name, data], one entry per file
Exists(d, name) == \E i \in 1..Len(d) : d[i].name = name
ReadFile(d, name) == (d[CHOOSE i \in 1..Len(d) : d[i].name = name]).data
DeleteFile(d, name) == SelectSeq(d, LAMBDA f : f.name # name)
WriteFile(d, name, data) == Append(DeleteFile(d, name), [name |-> name, data |-> data])

Raise(r, e) ==
    /\ pc' = [pc EXCEPT ![r] = "raised"]
    /\ err' = [err EXCEPT ![r] = e]

(* ------------------------------ actions ------------------------------- *)
CallProcessMarks ==
    /\ m_pc = "call"
    /\ result' = process_marks(marks)
    /\ m_pc' = "returned"
    /\ UNCHANGED <<marks, pc, df, headers, workbook, batch_workbooks, todo,
                   zip_buffer, err, disk>>

\* process_excel_file, lines 52-71: the headers, then the temporary file
ToExcel(r) ==
    /\ pc[r] = "start"
    /\ LET hdrs == make_headers(df[r].ncols)
       IN IF ColumnsFit(hdrs, df[r].ncols)
          THEN /\ headers' = [headers EXCEPT ![r] = hdrs]
               /\ disk' = WriteFile(disk, temp_path, to_excel(hdrs, df[r].rows))
               /\ pc' = [pc EXCEPT ![r] = "written"]
               /\ err' = err
          ELSE /\ headers' = [headers EXCEPT ![r] = hdrs]
               /\ Raise(r, "ValueError")
               /\ disk' = disk
    /\ UNCHANGED <<marks, result, m_pc, df, workbook, batch_workbooks, todo, zip_buffer>>

\* process_excel_file, lines 72-105: the file read back, the derived columns
LoadWorkbook(r) ==
    /\ pc[r] = "written"
    /\ IF Exists(disk, temp_path)
       THEN /\ workbook' = [workbook EXCEPT ![r] =
                   enrich(ReadFile(disk, temp_path), num_subjects(df[r].ncols))]
            /\ pc' = [pc EXCEPT ![r] = "enriched"]
            /\ err' = err
       ELSE /\ Raise(r, "FileNotFoundError")
            /\ workbook' = workbook
    /\ UNCHANGED <<marks, result, m_pc, df, headers, batch_workbooks, todo, zip_buffer, disk>>

\* create_department_batches, lines 117-153: the rows grouped, the archive opened
Categorize(r) ==
    /\ pc[r] = "enriched"
    /\ LET got == categorize(workbook[r])
       IN IF got.err = ""
          THEN /\ batch_workbooks' = [batch_workbooks EXCEPT ![r] = got.bw]
               /\ todo' = [todo EXCEPT ![r] = Flatten(got.bw)]
               /\ pc' = [pc EXCEPT ![r] = IF got.bw = <<>> THEN "done" ELSE "save"]
               /\ err' = err
          ELSE /\ Raise(r, got.err)
               /\ UNCHANGED <<batch_workbooks, todo>>
    /\ UNCHANGED <<marks, result, m_pc, df, headers, workbook, zip_buffer, disk>>

\* wb.save(batch_file)
SaveBatch(r) ==
    /\ pc[r] = "save"
    /\ LET job == Head(todo[r])
       IN disk' = WriteFile(disk, batch_file(job.dept, job.batch_year), FileRows(job.wb))
    /\ pc' = [pc EXCEPT ![r] = "write"]
    /\ UNCHANGED <<marks, result, m_pc, df, headers, workbook, batch_workbooks, todo,
                   zip_buffer, err>>

\* zip_file.write(batch_file, batch_file)
ZipWrite(r) ==
    /\ pc[r] = "write"
    /\ LET name == batch_file(Head(todo[r]).dept, Head(todo[r]).batch_year)
       IN IF Exists(disk, name)
          THEN /\ zip_buffer' = [zip_buffer EXCEPT ![r] =
                      Append(@, [name |-> name, data |-> ReadFile(disk, name)])]
               /\ pc' = [pc EXCEPT ![r] = "remove"]
               /\ err' = err
          ELSE /\ Raise(r, "FileNotFoundError")
               /\ zip_buffer' = zip_buffer
    /\ UNCHANGED <<marks, result, m_pc, df, headers, workbook, batch_workbooks, todo, disk>>

\* os.remove(batch_file), then the next workbook or the return of the archive
RemoveBatch(r) ==
    /\ pc[r] = "remove"
    /\ LET name == batch_file(Head(todo[r]).dept, Head(todo[r]).batch_year)
       IN IF Exists(disk, name)
          THEN /\ disk' = DeleteFile(disk, name)
               /\ todo' = [todo EXCEPT ![r] = Tail(@)]
               /\ pc' = [pc EXCEPT ![r] = IF Tail(todo[r]) = <<>> THEN "done" ELSE "save"]
               /\ err' = err
          ELSE /\ Raise(r, "FileNotFoundError")
               /\ UNCHANGED <<disk, todo>>
    /\ UNCHANGED <<marks, result, m_pc, df, headers, workbook, batch_workbooks, zip_buffer>>

Next ==
    \E r \in Runs :
        \/ ToExcel(r)
        \/ LoadWorkbook(r)
        \/ Categorize(r)
        \/ SaveBatch(r)
        \/ ZipWrite(r)
        \/ RemoveBatch(r)

NextMarks == CallProcessMarks

Spec == Init /\ [][Next]_vars
SpecConc == InitConc /\ [][Next]_vars
SpecMarks == InitMarks /\ [][NextMarks]_vars

(* ------------------------ helpers of the statements -------------------- *)
IsDigitString(chars) == chars # <<>> /\ \A i \in 1..Len(chars) : IsDigit(chars[i])

RECURSIVE Pow10(_)
Pow10(n) == IF n = 0 THEN 1 ELSE 10 * Pow10(n - 1)

\* the number a digit string denotes: the sum of digit * 10^position
RECURSIVE WeightedSum(_, _)
WeightedSum(chars, i) ==
    IF i > Len(chars) THEN 0
    ELSE DigitVal(chars[i]) * Pow10(Len(chars) - i) + WeightedSum(chars, i + 1)
NumericValue(chars) == WeightedSum(chars, 1)

\* two non-empty digit strings joined by the `+` at position k
JoinedAt(chars, k) ==
    /\ chars[k] = "+"
    /\ IsDigitString(SubSeq(chars, 1, k - 1))
    /\ IsDigitString(SubSeq(chars, k + 1, Len(chars)))

Started(r) == pc[r] \notin {"idle", "start"}
Returned(r) == pc[r] \in {"done", "raised"}
Grouped(r) == pc[r] \in {"save", "write", "remove", "done"}
Registers(t) == [j \in 1..Len(t.rows) |-> t.rows[j][1]]
FixedHeaders == <<RegisterNoLabel, NameLabel, CollegeIDLabel>>

(* ------------------------------ claims -------------------------------- *)
\* C1: for a mark string A+B, A and B non-empty digit strings, process_marks
\* returns (value of A, value of B, their sum), both values non-negative.
Thm_C1 ==
    (m_pc = "returned" /\ marks.t = "str") =>
        \A k \in 1..Len(marks.s) :
            JoinedAt(marks.s, k) =>
                LET a == NumericValue(SubSeq(marks.s, 1, k - 1))
                    b == NumericValue(SubSeq(marks.s, k + 1, Len(marks.s)))
                IN /\ result = <<IntV(a), IntV(b), IntV(a + b)>>
                   /\ result[1].v >= 0 /\ result[2].v >= 0
                   /\ result[3].v = result[1].v + result[2].v

Wit_C1 ==
    /\ m_pc = "returned"
    /\ marks = StrV(<<"0", "4", "0", "+", "0", "4", "3">>)
    /\ result = <<IntV(40), IntV(43), IntV(83)>>

\* C2 (as stated): a non-empty string that, stripped of surrounding
\* whitespace, is neither a digit string nor two digit strings joined by one
\* `+` makes process_marks return (None, None, None).
Orig_C2 ==
    (m_pc = "returned" /\ marks.t = "str" /\ marks.s # <<>>) =>
        LET t == strip(marks.s)
            wellformed == IsDigitString(t) \/ \E k \in 1..Len(t) : JoinedAt(t, k)
        IN ~wellformed => result = Sentinel

\* C7 (amended): with fewer than 3 columns process_excel_file builds the three
\* fixed headers only and raises ValueError when it assigns them to the table:
\* nothing is written and no workbook is returned.
Thm_C7 ==
    \A r \in Runs :
        (Started(r) /\ df[r].ncols < 3) =>
            /\ pc[r] = "raised" /\ err[r] = "ValueError"
            /\ headers[r] = FixedHeaders
            /\ workbook[r] = <<>> /\ zip_buffer[r] = <<>>
            /\ ~Exists(disk, temp_path)

Wit_C7 ==
    /\ pc[1] = "raised" /\ err[1] = "ValueError"
    /\ df[1].ncols = 2 /\ Len(df[1].rows) = 2

\* C7 (as stated): with fewer than 3 columns process_excel_file raises no
\* error and passes the table through under the three fixed headers.
Orig_C7 ==
    \A r \in Runs :
        (Started(r) /\ df[r].ncols < 3) =>
            /\ pc[r] # "raised"
            /\ headers[r] = FixedHeaders

\* C8 (as stated): when a run has returned, normally or by raising, the files
\* on disk are those that were there before it (none).
Orig_C8 == \A r \in Runs : Returned(r) => disk = <<>>

\* the cell the enriched sheet holds for an input cell: NaN is written as the
\* empty string, which the file does not keep
Loaded(x) == FileCell(ExcelCell(x))
Label3(name, i) == StrV(name \o <<" ">> \o str(i))
Label4(name, i) == StrV(name \o str(i))
Exact(t) == t.ncols >= 7 /\ t.ncols = 3 + 4 * num_subjects(t.ncols)

\* the input cells of subject i (block position p in 1..4) of data row j
InputCell(t, j, i, p) == Loaded(t.rows[j][3 + 4 * (i - 1) + p])

Thm_C10 ==
    \A r \in Runs :
        workbook[r] # <<>> =>
            LET sheet == workbook[r]
            IN \A i \in 1..num_subjects(df[r].ncols) : \A idx \in 1..3 :
                 LET cols == {c \in 1..Len(sheet[1]) :
                                 sheet[1][c] = Label3(DerivedLabels[idx], i)}
                 IN /\ Cardinality(cols) = 1
                    /\ \A c \in cols : \A j \in 1..Len(df[r].rows) :
                         LET part == process_marks(InputCell(df[r], j, i, 3))[idx]
                         IN /\ sheet[j + 1][c] = (IF part = None THEN StrV(<<>>) ELSE part)
                            /\ sheet[j + 1][c] # None

Wit_C10 ==
    /\ pc[1] = "enriched" /\ df[1].ncols = 12 /\ Len(df[1].rows) = 2
    /\ df[1].rows[2][10] = StrV(<<"0", "4", "0", "+", "0", "4", "3">>)
    /\ workbook[1][3][14] = IntV(40) /\ workbook[1][3][15] = IntV(43)
    /\ workbook[1][3][16] = IntV(83)
    /\ df[1].rows[2][6] = StrV(<<"0", "7", "0">>)
    /\ workbook[1][3][7] = StrV(<<>>) /\ workbook[1][3][9] = IntV(70)

DataScienceBatch28 == <<"D", "a", "t", "a", "_", "S", "c", "i", "e", "n", "c", "e", "_", "B", "a", "t", "c", "h", "_", "2", "8", ".", "x", "l", "s", "x">>
BBABatch25 == <<"B", "B", "A", "_", "B", "a", "t", "c", "h", "_", "2", "5", ".", "x", "l", "s", "x">>
Tables_of(r) == Flatten(batch_workbooks[r])
ZipNames(r) == [i \in 1..Len(zip_buffer[r]) |-> zip_buffer[r][i].name]

\* a data row the partitioner files under department code `code`, year `year`
FiledUnder(row, code, year) ==
    /\ row[1].t = "str" /\ Len(row[1].s) >= 5
    /\ SubSeq(row[1].s, 1, 2) = year /\ SubSeq(row[1].s, 3, 5) = code
Prefix2(chars) == SubSeq(chars, 1, IF Len(chars) < 2 THEN Len(chars) ELSE 2)
Valid(row) == \E p \in department_codes : FiledUnder(row, p[1], SubSeq(row[1].s, 1, 2))
DataRowCount(tables) ==
    Cardinality({<<i, j>> \in (1..Len(tables)) \X (2..(MaxRows + 2)) :
                     j <= Len(tables[i].wb)})

\* C4 (amended): batch year and department code are read at [0,2) and [2,5),
\* so the rows "28M231001" and "25F231002" (codes "M23", "F23") give no output
\* table; the rows "2828M1001" and "2525F1002" give exactly the two tables
\* Data_Science_Batch_28.xlsx and BBA_Batch_25.xlsx, each the shared header
\* plus its one data row.
Thm_C4 ==
    \A r \in Runs :
        pc[r] = "done" =>
            /\ Registers(df[r]) = <<StrV(R28M231001), StrV(R25F231002)>> =>
                   (batch_workbooks[r] = <<>> /\ zip_buffer[r] = <<>>)
            /\ Registers(df[r]) = <<StrV(R2828M1001), StrV(R2525F1002)>> =>
                   /\ ZipNames(r) = <<DataScienceBatch28, BBABatch25>>
                   /\ Len(Tables_of(r)) = 2
                   /\ Tables_of(r)[1].wb = <<workbook[r][1], workbook[r][2]>>
                   /\ Tables_of(r)[2].wb = <<workbook[r][1], workbook[r][3]>>

Wit_C4 ==
    /\ pc[1] = "done"
    /\ Registers(df[1]) = <<StrV(R2828M1001), StrV(R2525F1002)>>
    /\ ZipNames(1) = <<DataScienceBatch28, BBABatch25>>
    /\ df[1].ncols = 11

\* C4 (as stated): the rows "28M231001" and "25F231002" give exactly the two
\* tables Data_Science_Batch_28.xlsx and BBA_Batch_25.xlsx, one data row each.
Orig_C4 ==
    \A r \in Runs :
        (pc[r] = "done" /\ Registers(df[r]) = <<StrV(R28M231001), StrV(R25F231002)>>) =>
            /\ ZipNames(r) = <<DataScienceBatch28, BBABatch25>>
            /\ \A i \in 1..Len(Tables_of(r)) : Len(Tables_of(r)[i].wb) = 2

\* C5: a row whose Register No is no string, is shorter than 5 characters or
\* has no department code at [2,5) is in no output table and never makes the
\* run fail: the other rows are still partitioned.
Thm_C5 ==
    \A r \in Runs :
        /\ \A i \in 1..Len(Tables_of(r)) : \A j \in 2..Len(Tables_of(r)[i].wb) :
               Valid(Tables_of(r)[i].wb[j])
        /\ (Started(r) /\ df[r].ncols >= 3) => pc[r] # "raised"
        /\ Grouped(r) =>
               DataRowCount(Tables_of(r)) =
                   Cardinality({j \in 2..Len(workbook[r]) : Valid(workbook[r][j])})

Wit_C5 ==
    /\ pc[1] = "done"
    /\ Registers(df[1]) = <<IntV(2828), StrV(R2828M1001)>>
    /\ ZipNames(1) = <<DataScienceBatch28>>
    /\ Tables_of(1)[1].wb = <<workbook[1][1], workbook[1][3]>>

\* C6: the table of a (department, batch year) pair is the enriched header
\* followed by all enriched rows with that year at [0,2) and that department's
\* code at [2,5), whole and in their original order; a pair has a table only
\* if it has a row, and there is no other table.
Thm_C6 ==
    \A r \in Runs :
        Grouped(r) =>
            LET sheet == workbook[r]
                tables == Tables_of(r)
                years == {Prefix2(sheet[j][1].s) : j \in 2..Len(sheet)} \cup
                         {tables[i].batch_year : i \in 1..Len(tables)}
            IN /\ \A p \in department_codes : \A y \in years :
                    LET expected == SelectSeq(Tail(sheet),
                                              LAMBDA row : FiledUnder(row, p[1], y))
                        at == {i \in 1..Len(tables) :
                                  tables[i].dept = p[2] /\ tables[i].batch_year = y}
                    IN IF expected = <<>> THEN at = {}
                       ELSE /\ Cardinality(at) = 1
                            /\ \A i \in at : tables[i].wb = <<sheet[1]>> \o expected
               /\ \A i \in 1..Len(tables) :
                    \E p \in department_codes : tables[i].dept = p[2]

Wit_C6 ==
    /\ pc[1] = "done"
    /\ Registers(df[1]) = <<StrV(R2828M1001), StrV(R2828M1002)>>
    /\ Len(Tables_of(1)) = 1
    /\ Tables_of(1)[1].wb = workbook[1]
    /\ df[1].ncols = 8

\* what a run returns when it runs alone
AloneWorkbook(t) ==
    enrich(to_excel(make_headers(t.ncols), t.rows), num_subjects(t.ncols))
AloneZip(t) ==
    LET tables == Flatten(categorize(AloneWorkbook(t)).bw)
    IN [i \in 1..Len(tables) |->
          [name |-> batch_file(tables[i].dept, tables[i].batch_year),
           data |-> FileRows(tables[i].wb)]]

\* C9 (as stated): with two runs interleaved, no run fails because of the
\* other and each run's workbook and archive are those of the run alone.
Orig_C9 ==
    \A r \in Runs :
        /\ pc[r] # "raised"
        /\ workbook[r] # <<>> => workbook[r] = AloneWorkbook(df[r])
        /\ pc[r] = "done" => zip_buffer[r] = AloneZip(df[r])

====
